---- MODULE Spec2Model ----
(***************************************************************************)
(* A model of the Mochi MCP adapter: the request schemas, the remote       *)
(* client and the MCP request handlers of the four source variants         *)
(*   "part_001"  src/unnamed/part_001   (server 1.0.3, mochi_* tools)       *)
(*   "index"     src/src/index.ts       (server 1.0.2, create_card ...)     *)
(*   "mochi"     src/src/mochi.ts       (server 0.1.0)                      *)
(*   "cli"       src/unnamed/part_000 + part_002 (McpServer, argv token)    *)
(* A handler that awaits the remote is split at its await: the first half  *)
(* validates and issues the HTTP request, the second half consumes the     *)
(* remote's answer and produces the handler's outcome.                     *)
(***************************************************************************)
EXTENDS Integers, Sequences, FiniteSets, TLC

VARIABLES
    variant,    \* which source file is the running program
    token,      \* the configured token: Unset, "" or a secret
    phase,      \* "boot", "connecting", "serving", "exited"
    exitCode,   \* process exit code, NoExit while running
    req,        \* the request being (or last) handled, NoReq before the first
    pc,         \* "idle" (no handler running), "awaiting" (HTTP in flight),
                \* "hung" (HTTP in flight that will never be answered)
    http,       \* the HTTP requests issued for req, in order
    answer,     \* the remote's answer to the request in http, NoAnswer before it
    outcome,    \* what the handler of req produced, NoOutcome while it runs
    handled     \* requests whose handler has been entered in this run

vars == <<variant, token, phase, exitCode, req, pc, http, answer, outcome, handled>>

\* ------------------------------------------------------------------ bounds

MaxDocs == 2        \* longest docs array of a remote list response
MaxRequests == 2    \* requests handled in one run
MaxConcDocs == 1    \* longest docs array answered to overlapping calls

\* ------------------------------------------------------------- JSON values

Str(s) == [t |-> "string", s |-> s]
Num(n) == [t |-> "number", n |-> n]
Bool(b) == [t |-> "boolean", b |-> b]
Null == [t |-> "null"]
Arr(of) == [t |-> "array", of |-> of]      \* an array, by the kind of its items
Obj(of) == [t |-> "object", of |-> of]     \* a map, by the kind of its entries
List(items) == [t |-> "array", items |-> items]  \* an array value a method returns

Range(f) == {f[i] : i \in DOMAIN f}

\* An object literal: the keys that are present (an undefined key is absent).
Restrict(o, keys) == [k \in (DOMAIN o) \cap keys |-> o[k]]
Without(o, keys) == [k \in (DOMAIN o) \ keys |-> o[k]]
EmptyObj == [k \in {} |-> Null]
Put(o, key, v) == [k \in (DOMAIN o) \cup {key} |-> IF k = key THEN v ELSE o[k]]

RECURSIVE SelectSeq2(_, _)
\* Array.prototype.filter: the kept items in their original order.
SelectSeq2(s, keep) ==
    IF s = <<>> THEN <<>>
    ELSE IF Head(s) \in keep THEN <<Head(s)>> \o SelectSeq2(Tail(s), keep)
         ELSE SelectSeq2(Tail(s), keep)

RECURSIVE Flatten(_)
Flatten(ss) == IF ss = <<>> THEN <<>> ELSE Head(ss) \o Flatten(Tail(ss))

\* Array.prototype.join: the items with the separator between them.
RECURSIVE Join(_, _)
Join(ss, sep) ==
    IF ss = <<>> THEN <<>>
    ELSE IF Len(ss) = 1 THEN Head(ss)
         ELSE Head(ss) \o <<sep>> \o Join(Tail(ss), sep)

\* ------------------------------------------------------------ zod schemas

\* One property of a z.object shape.
Field(key, type, min, optional, nullable, hasDefault) ==
    [key |-> key, type |-> type, min |-> min, optional |-> optional,
     nullable |-> nullable, hasDefault |-> hasDefault]
Required(key, type) == Field(key, type, 0, FALSE, FALSE, FALSE)
Optional(key, type) == Field(key, type, 0, TRUE, FALSE, FALSE)
NonEmpty(key) == Field(key, "string", 1, FALSE, FALSE, FALSE)

LimitMin == 1
LimitMax == 100

\* Mutant of CreateCardRequestSchema: template-id is optional without a default.
CreateCardRequestSchemaNoDefault(v) ==
    << NonEmpty("content"), NonEmpty("deck-id"),
       Field("template-id", "string", 0, TRUE, v = "part_001", FALSE),
       Optional("manual-tags", "strings"),
       Field("fields", "fields", 0, v # "index", FALSE, FALSE) >>

CreateCardRequestSchema(v) ==
    IF v = "part_001" THEN
        << NonEmpty("content"), NonEmpty("deck-id"),
           Field("template-id", "string", 0, TRUE, TRUE, TRUE),
           Optional("manual-tags", "strings"), Optional("fields", "fields") >>
    ELSE IF v = "index" THEN
        << NonEmpty("content"), NonEmpty("deck-id"),
           Optional("template-id", "string"),
           Optional("manual-tags", "strings"), Required("fields", "fields") >>
    ELSE
        << NonEmpty("content"), NonEmpty("deck-id"),
           Optional("template-id", "string"), Optional("archived", "boolean"),
           Optional("review-reverse", "boolean"), Optional("pos", "string"),
           Optional("manual-tags", "strings"), Optional("fields", "fields") >>

UpdateCardRequestSchema ==
    << Optional("content", "string"), Optional("deck-id", "string"),
       Optional("template-id", "string"), Optional("archived?", "boolean"),
       Optional("trashed?", "string"), Optional("fields", "fields") >>

\* z.object({ "card-id": z.string(), ...UpdateCardRequestSchema.shape })
UpdateCardToolSchema == << Required("card-id", "string") >> \o UpdateCardRequestSchema

ListDecksParamsSchema == << Optional("bookmark", "string") >>

\* Mutant of ListCardsParamsSchema: limit is any number.
ListCardsParamsSchemaAnyLimit ==
    << Optional("deck-id", "string"), Optional("limit", "number"),
       Optional("bookmark", "string") >>

ListCardsParamsSchema ==
    << Optional("deck-id", "string"), Optional("limit", "limit"),
       Optional("bookmark", "string") >>

ListTemplatesParamsSchema == << Optional("bookmark", "string") >>

Issue(path, code, message) == [path |-> path, code |-> code, message |-> message]

\* typeof as zod reports it
Received(v) == v.t

Expected(type) ==
    IF type \in {"string", "boolean", "number", "array"} THEN type
    ELSE IF type = "limit" THEN "number"
    ELSE IF type = "strings" THEN "array"
    ELSE "object"

\* The issues zod raises for a value that is present and not null.
ValueIssues(f, v) ==
    IF Received(v) # Expected(f.type)
    THEN << Issue(<<f.key>>, "invalid_type",
                  <<"Expected ", Expected(f.type), ", received ", Received(v)>>) >>
    ELSE IF f.type = "string" THEN
        IF f.min = 1 /\ v.s = ""
        THEN << Issue(<<f.key>>, "too_small",
                      <<"String must contain at least 1 character(s)">>) >>
        ELSE <<>>
    ELSE IF f.type = "limit" THEN
        (IF v.n < LimitMin
         THEN << Issue(<<f.key>>, "too_small",
                       <<"Number must be greater than or equal to 1">>) >>
         ELSE <<>>)
        \o
        (IF v.n > LimitMax
         THEN << Issue(<<f.key>>, "too_big",
                       <<"Number must be less than or equal to 100">>) >>
         ELSE <<>>)
    ELSE IF f.type = "strings" THEN
        IF v.of # "string"
        THEN << Issue(<<f.key, "0">>, "invalid_type",
                      <<"Expected ", "string", ", received ", v.of>>) >>
        ELSE <<>>
    ELSE IF f.type = "record" \/ f.type = "array" \/ f.type = "created" THEN <<>>
    ELSE IF f.type = "templateFields" THEN
        IF v.of # "templateField"
        THEN << Issue(<<f.key, "name", "id">>, "invalid_type", <<"Required">>) >>
        ELSE <<>>
    ELSE IF f.type = "fields" THEN
        IF v.of # "field"
        THEN << Issue(<<f.key, "name", "value">>, "invalid_type", <<"Required">>) >>
        ELSE <<>>
    ELSE <<>>

\* The issues of one property of the shape against the input object.
FieldIssues(f, bag) ==
    IF f.key \notin DOMAIN bag THEN
        IF f.hasDefault \/ f.optional THEN <<>>
        ELSE << Issue(<<f.key>>, "invalid_type", <<"Required">>) >>
    ELSE IF bag[f.key] = Null THEN
        IF f.nullable THEN <<>>
        ELSE << Issue(<<f.key>>, "invalid_type",
                      <<"Expected ", Expected(f.type), ", received ", "null">>) >>
    ELSE ValueIssues(f, bag[f.key])

\* Mutant of Issues: absent arguments are parsed as an empty object.
IssuesAbsentAsEmpty(schema, args) ==
    Flatten([i \in 1..Len(schema) |->
               FieldIssues(schema[i], IF args.present THEN args.bag ELSE EmptyObj)])

\* ZodError.errors of schema.parse(input): the issues in shape order; an
\* undefined input is one issue with an empty path.
Issues(schema, args) ==
    IF ~args.present THEN << Issue(<<>>, "invalid_type", <<"Required">>) >>
    ELSE Flatten([i \in 1..Len(schema) |-> FieldIssues(schema[i], args.bag)])

SchemaKeys(schema) == {schema[i].key : i \in 1..Len(schema)}
DefaultKeys(schema) == {schema[i].key : i \in {j \in 1..Len(schema) : schema[j].hasDefault}}

\* Mutant of Parsed: unknown keys are passed through, not stripped.
ParsedPassthrough(schema, args) ==
    [k \in (DOMAIN args.bag) \cup DefaultKeys(schema) |->
        IF k \in DOMAIN args.bag THEN args.bag[k] ELSE Null]

\* The value schema.parse returns when there are no issues: the declared keys
\* that are present (unknown keys stripped), a missing defaulted key set to null.
Parsed(schema, args) ==
    [k \in ((DOMAIN args.bag) \cap SchemaKeys(schema)) \cup DefaultKeys(schema) |->
        IF k \in DOMAIN args.bag THEN args.bag[k] ELSE Null]


\* ------------------------------------------------------- response schemas

CardSchema(v) ==
    IF v = "mochi" THEN
        << Required("id", "string"), Required("tags", "strings"),
           Required("content", "string"), Required("name", "string"),
           Required("deck-id", "string"), Required("fields", "record"),
           Required("pos", "string"), Required("references", "array"),
           Required("reviews", "array"), Required("created-at", "created") >>
    ELSE
        << Required("id", "string"), Required("tags", "strings"),
           Required("content", "string"), Required("name", "string"),
           Required("deck-id", "string"), Optional("fields", "record") >>

CreateCardResponseSchema(v) ==
    IF v = "mochi"
    THEN << Required("status", "string"), Optional("error_message", "string") >>
    ELSE CardSchema(v)

DeckSchema ==
    << Required("id", "string"), Required("sort", "number"),
       Required("name", "string"), Optional("archived", "boolean") >>

TemplateSchema ==
    << Required("id", "string"), Required("name", "string"),
       Required("content", "string"), Required("pos", "string"),
       Required("fields", "templateFields") >>

Present(bag) == [present |-> TRUE, bag |-> bag]
Undefined == [present |-> FALSE, bag |-> EmptyObj]

Prefixed(prefix, issues) ==
    [i \in 1..Len(issues) |->
        Issue(prefix \o issues[i].path, issues[i].code, issues[i].message)]

\* Issues of { bookmark: z.string(), docs: z.array(item) } against a body whose
\* docs, when present, is a list of objects.
EnvelopeIssues(item, data) ==
    FieldIssues(Required("bookmark", "string"), Without(data, {"docs"}))
    \o (IF "docs" \notin DOMAIN data
        THEN << Issue(<<"docs">>, "invalid_type", <<"Required">>) >>
        ELSE Flatten([i \in 1..Len(data["docs"]) |->
                 Prefixed(<<"docs", ToString(i - 1)>>,
                          Issues(item, Present(data["docs"][i])))]))

\* The parsed envelope: bookmark and docs only, every doc stripped to its schema.
EnvelopeParsed(item, data) ==
    [k \in {"bookmark", "docs"} |->
        IF k = "bookmark" THEN data["bookmark"]
        ELSE [i \in 1..Len(data["docs"]) |-> Parsed(item, Present(data["docs"][i]))]]

\* ------------------------------------------------------------ the remote

Card(id) ==
    ("id" :> Str(id)) @@ ("tags" :> Arr("string")) @@ ("content" :> Str("Q"))
    @@ ("name" :> Str("n")) @@ ("deck-id" :> Str("d1"))

\* A card as the live service returns it: every property of the oldest schema
\* and one that no schema declares.
FullCard(id) ==
    Card(id) @@ ("fields" :> Obj("any")) @@ ("pos" :> Str("p"))
    @@ ("references" :> Arr("any")) @@ ("reviews" :> Arr("any"))
    @@ ("created-at" :> Obj("date")) @@ ("updated-at" :> Obj("date"))

StatusBody == ("status" :> Str("ok"))

CardBodies ==
    {Card("c9"), FullCard("c8"), Without(Card("c9"), {"id"}),
     Without(Card("c9"), {"content"}), StatusBody}

Deck(id, archived) ==
    LET d == ("id" :> Str(id)) @@ ("sort" :> Num(1)) @@ ("name" :> Str("deck"))
    IN IF archived = "absent" THEN d ELSE d @@ ("archived" :> Bool(archived = "true"))

Decks ==
    {Deck(id, a) : id \in {"a", "b"}, a \in {"absent", "true", "false"}}
    \cup {Without(Deck("a", "absent"), {"sort"}),
          Deck("", "false") @@ ("parent-id" :> Str("a"))}

Template(id) ==
    ("id" :> Str(id)) @@ ("name" :> Str("tpl")) @@ ("content" :> Str("<< Front >>"))
    @@ ("pos" :> Str("s")) @@ ("fields" :> Obj("templateField"))

Templates ==
    {Template("t1"), Without(Template("t2"), {"pos"}),
     Template("t3") @@ ("style" :> Obj("any"))}

\* A card carrying the flags of the service (archived, trashed).
FlaggedCard(id) ==
    Card(id) @@ ("archived?" :> Bool(TRUE)) @@ ("trashed?" :> Str("2024-01-01"))

Cards == {Card("c1"), FullCard("c2"), Without(Card("c3"), {"name"}), FlaggedCard("c4")}

SeqsUpTo(S, n) == UNION {[1..k -> S] : k \in 0..n}

Bookmarks == {"bm2", "bm3"}

EnvelopesUpTo(S, n) ==
    {("bookmark" :> Str(b)) @@ ("docs" :> docs) : b \in Bookmarks, docs \in SeqsUpTo(S, n)}
    \cup {("docs" :> <<>>),
          ("bookmark" :> Str("bm2")) @@ ("docs" :> <<>>) @@ ("total" :> Num(0))}

Envelopes(S) == EnvelopesUpTo(S, MaxDocs)

\* What the API sends with a non-2xx status: an array of messages or an
\* object mapping field to message.
ErrorBodies ==
    { [form |-> "object", keys |-> <<"deck-id">>, messages |-> <<"is required">>],
      [form |-> "array", keys |-> <<>>, messages |-> <<"bad token", "try again">>] }

ErrorStatuses == {401, 422}

Ok(data) == [kind |-> "ok", status |-> 200, data |-> data]
Failed(status, data) == [kind |-> "http_error", status |-> status, data |-> data]
NetworkFailure == [kind |-> "network"]

Failures == {Failed(st, d) : st \in ErrorStatuses, d \in ErrorBodies} \cup {NetworkFailure}

\* Everything the remote can answer to a request, with pages of at most n
\* documents.
AnswersUpTo(r, n) ==
    Failures \cup
    { Ok(d) : d \in
        IF r.method = "POST" THEN CardBodies
        ELSE IF Head(r.url) = "/decks" THEN EnvelopesUpTo(Decks, n)
        ELSE IF Head(r.url) = "/templates" THEN EnvelopesUpTo(Templates, n)
        ELSE EnvelopesUpTo(Cards, n) }

Answers(r) == AnswersUpTo(r, MaxDocs)


\* ------------------------------------------------------------ the client

NoBody == [present |-> FALSE, bag |-> EmptyObj]

\* this.api.get(url, { params }) and this.api.post(url, body)
Get(url, params) == [method |-> "GET", url |-> url, params |-> params, body |-> NoBody]
Post(url, body) == [method |-> "POST", url |-> url, params |-> Undefined, body |-> Present(body)]

\* The HTTP request a client method issues for its (validated) arguments.
ClientRequest(op, cardId, request) ==
    IF op = "createCard" THEN Post(<<"/cards">>, request.bag)
    ELSE IF op = "updateCard" THEN Post(<<"/cards/", cardId>>, request.bag)
    ELSE IF op = "listDecks" THEN Get(<<"/decks">>, request)
    ELSE IF op = "listCards" THEN Get(<<"/cards">>, request)
    ELSE Get(<<"/templates">>, request)

Return(value) == [thrown |-> FALSE, value |-> value]
Throw(error) == [thrown |-> TRUE, error |-> error]

ZodError(issues) == [name |-> "ZodError", issues |-> issues]
PlainError(message) == [name |-> "Error", message |-> message]

\* What axios rejects with: a non-2xx status or no response at all.
AxiosError(resp) ==
    [name |-> "AxiosError",
     message |-> IF resp.kind = "http_error"
                 THEN <<"Request failed with status code ", ToString(resp.status)>>
                 ELSE <<"Network Error">>]

\* (deck) => !deck.archived
NotArchived(deck) == ~("archived" \in DOMAIN deck /\ deck["archived"] = Bool(TRUE))

\* .docs.filter((deck) => !deck.archived)
FilterArchived(docs) == SelectSeq2(docs, {d \in Range(docs) : NotArchived(d)})

\* What listDecks returns from the parsed envelope.
ListDecksValue(v, envelope) ==
    IF v = "mochi" THEN envelope ELSE List(FilterArchived(envelope["docs"]))

\* Mutant of ListCardsValue: cards without field values are left out of the page.
ListCardsValueDropsPlain(v, envelope) ==
    [k \in DOMAIN envelope |->
        IF k = "docs"
        THEN SelectSeq2(envelope["docs"],
                        {c \in Range(envelope["docs"]) : "fields" \in DOMAIN c})
        ELSE envelope[k]]

\* What listCards returns from the parsed envelope: the envelope itself.
ListCardsValue(v, envelope) == envelope

ItemSchema(v, op) ==
    IF op = "listDecks" THEN DeckSchema
    ELSE IF op = "listCards" THEN CardSchema(v)
    ELSE TemplateSchema

\* The rest of a client method once axios settles: reject on a failed
\* request, else parse the body with the method's response schema.
ClientResult(v, op, resp) ==
    IF resp.kind # "ok" THEN Throw(AxiosError(resp))
    ELSE IF op \in {"createCard", "updateCard"} THEN
        LET issues == Issues(CreateCardResponseSchema(v), Present(resp.data))
        IN IF issues # <<>> THEN Throw(ZodError(issues))
           ELSE Return(Parsed(CreateCardResponseSchema(v), Present(resp.data)))
    ELSE
        LET issues == EnvelopeIssues(ItemSchema(v, op), resp.data)
            envelope == EnvelopeParsed(ItemSchema(v, op), resp.data)
        IN IF issues # <<>> THEN Throw(ZodError(issues))
           ELSE IF op = "listDecks" THEN Return(ListDecksValue(v, envelope))
           ELSE IF op = "listCards" THEN Return(ListCardsValue(v, envelope))
           ELSE Return(envelope)

\* -------------------------------------------------------- tool results

NoJson == [t |-> "none"]

\* A text block's string: its literal pieces, then the JSON text of a value.
Text(pieces) == [pieces |-> pieces, json |-> NoJson]

\* JSON.stringify(value, null, 2)
Stringify(value) == [pieces |-> <<>>, json |-> value]

ToolResult(isError, text) ==
    [kind |-> "result", content |-> << [type |-> "text", text |-> text] >>, isError |-> isError]

\* err.path.join(".")
PathString(path) == Join([i \in 1..Len(path) |-> <<path[i]>>], ".")

\* The line the ZodError branch writes for one issue.
FormatIssue(err) ==
    LET path == PathString(err.path)
        message == IF err.code = "invalid_type" /\ "Required" \in Range(err.message)
                   THEN <<"Required field '">> \o path \o <<"' is missing">>
                   ELSE err.message
    IN (IF path # <<>> THEN path \o <<": ">> ELSE <<>>) \o message

ValidationText(v, issues) ==
    IF v = "mochi"
    THEN <<"Validation error: ">> \o Join([i \in 1..Len(issues) |-> issues[i].message], ", ")
    ELSE <<"Validation error:\n">> \o Join([i \in 1..Len(issues) |-> FormatIssue(issues[i])], "\n")

\* Mutant of CatchResult: no ZodError branch, a schema failure is reported by
\* the last branch like any other error.
CatchResultFallbackOnly(v, error) ==
    IF error.name = "ZodError"
    THEN ToolResult(TRUE, Text(<<"Error: ", "[zod issues]">>))
    ELSE ToolResult(TRUE, Text(<<"Error: ">> \o error.message))

\* Mutant of CatchResult: the last branch reports the error without the
\* error flag.
CatchResultFallbackUnflagged(v, error) ==
    IF error.name = "ZodError"
    THEN ToolResult(TRUE, Text(ValidationText(v, error.issues)))
    ELSE IF error.name = "MochiError"
    THEN ToolResult(TRUE, Text(<<"Mochi API error (", ToString(error.statusCode), "): ">>
                               \o error.message))
    ELSE ToolResult(FALSE, Text(<<"Error: ">> \o error.message))

\* The catch block of the tool-call handler.
CatchResult(v, error) ==
    IF error.name = "ZodError"
    THEN ToolResult(TRUE, Text(ValidationText(v, error.issues)))
    ELSE IF error.name = "MochiError"
    THEN ToolResult(TRUE, Text(<<"Mochi API error (", ToString(error.statusCode), "): ">>
                               \o error.message))
    ELSE ToolResult(TRUE, Text(<<"Error: ">> \o error.message))

\* Mutant of UnknownTool: the message leaves the requested name out.
UnknownToolUnnamed(name) == ToolResult(TRUE, Text(<<"Unknown tool">>))

UnknownTool(name) == ToolResult(TRUE, Text(<<"Unknown tool: ", name>>))

\* The client method each case of the dispatcher's switch calls, "none" for
\* the default case.
ToolOp(v, name) ==
    IF v = "index" THEN
        IF name = "create_card" THEN "createCard"
        ELSE IF name = "list_decks" THEN "listDecks"
        ELSE IF name = "list_cards" THEN "listCards"
        ELSE IF name = "list_templates" THEN "listTemplates"
        ELSE "none"
    ELSE
        IF name = "mochi_create_card" THEN "createCard"
        ELSE IF name = "mochi_update_card" /\ v = "part_001" THEN "updateCard"
        ELSE IF name = "mochi_list_decks" THEN "listDecks"
        ELSE IF name = "mochi_list_cards" THEN "listCards"
        ELSE IF name = "mochi_list_templates" /\ v = "part_001" THEN "listTemplates"
        ELSE "none"

RequestSchema(v, op) ==
    IF op = "createCard" THEN CreateCardRequestSchema(v)
    ELSE IF op = "updateCard" THEN UpdateCardToolSchema
    ELSE IF op = "listDecks" THEN ListDecksParamsSchema
    ELSE IF op = "listCards" THEN ListCardsParamsSchema
    ELSE ListTemplatesParamsSchema

\* Mutant of ToolRequest: the whole validated object, card-id included, is
\* passed on as the update body.
ToolRequestKeepsCardId(v, op, args) ==
    LET validated == Parsed(RequestSchema(v, op), args)
    IN IF op = "updateCard"
       THEN ClientRequest(op, validated["card-id"].s, Present(validated))
       ELSE ClientRequest(op, "", Present(validated))

\* Mutant of ToolRequest: the arguments go to the client as the caller sent
\* them, not as the schema parsed them.
ToolRequestRawArgs(v, op, args) ==
    IF op = "updateCard"
    THEN ClientRequest(op, args.bag["card-id"].s, Present(Without(args.bag, {"card-id"})))
    ELSE ClientRequest(op, "", args)

\* The HTTP request of a tool call whose arguments passed the schema: for
\* update-card the card-id is destructured out and goes into the URL.
ToolRequest(v, op, args) ==
    LET validated == Parsed(RequestSchema(v, op), args)
    IN IF op = "updateCard"
       THEN ClientRequest(op, validated["card-id"].s, Present(Without(validated, {"card-id"})))
       ELSE ClientRequest(op, "", Present(validated))

\* What the tool-call handler produces once the client method settles.
ToolOutcome(v, op, resp) ==
    LET r == ClientResult(v, op, resp)
    IN IF v = "mochi" THEN
           \* return mochiClient.x(...): the promise is returned, not awaited
           IF r.thrown THEN [kind |-> "throw", error |-> r.error]
           ELSE [kind |-> "raw", value |-> r.value]
       ELSE IF r.thrown THEN CatchResult(v, r.error)
       ELSE ToolResult(FALSE, Stringify(r.value))


\* ------------------------------------------------------------ resources

\* uri.match(/^mochi:\/\/decks\/(.+)$/): a URI is its prefix and, after the
\* last slash, an id; (.+) needs at least one character.
DeckUriMatch(uri) == Len(uri) = 2 /\ uri[1] = "mochi://decks/" /\ uri[2] # ""

\* The client method a resource read calls, "none" when the URI is refused.
ReadOp(v, uri) ==
    IF v = "part_001" THEN
        IF uri = <<"mochi://decks">> THEN "listDecks"
        ELSE IF uri = <<"mochi://templates">> THEN "listTemplates"
        ELSE "none"
    ELSE IF DeckUriMatch(uri) THEN "listCards" ELSE "none"

\* Mutant of ReadRequest: the per-deck read fetches the cards of every deck.
ReadRequestAllCards(v, uri) ==
    IF v = "part_001" THEN ClientRequest(ReadOp(v, uri), "", Undefined)
    ELSE ClientRequest("listCards", "", Present(EmptyObj))

ReadRequest(v, uri) ==
    IF v = "part_001" THEN ClientRequest(ReadOp(v, uri), "", Undefined)
    ELSE ClientRequest("listCards", "", Present("deck-id" :> Str(uri[2])))

\* Mutant of InvalidResource: an unknown URI reads as empty content.
InvalidResourceEmpty == [kind |-> "contents", contents |-> <<>>]

InvalidResource == [kind |-> "throw", error |-> PlainError(<<"Invalid resource URI">>)]

Contents(uri, value) ==
    [kind |-> "contents",
     contents |-> << [uri |-> uri, mimeType |-> "application/json", text |-> Stringify(value)] >>]

\* docs.map((x) => ({ ...the listed properties }))
MapPick(docs, keys) == [i \in 1..Len(docs) |-> Restrict(docs[i], keys)]

\* What the resource-read handler produces once the client method settles;
\* the handler has no try block.
ReadOutcome(v, uri, resp) ==
    LET r == ClientResult(v, ReadOp(v, uri), resp)
    IN IF r.thrown THEN [kind |-> "throw", error |-> r.error]
       ELSE IF v # "part_001"
       THEN Contents(uri, List(MapPick(r.value["docs"], {"id", "name", "content", "fields"})))
       ELSE IF ReadOp(v, uri) = "listDecks"
       THEN Contents(uri, List(MapPick(r.value.items, {"id", "name", "archived"})))
       ELSE Contents(uri, r.value)

\* One entry of the per-deck resource list: uri `mochi://decks/${deck.id}`.
DeckResource(deck) ==
    [uri |-> <<"mochi://decks/", deck["id"].s>>,
     name |-> <<deck["name"].s, " (Deck ID: ", deck["id"].s, ")">>,
     description |-> <<"Deck ID: ", deck["id"].s>>,
     mimeType |-> "application/json"]

\* The resource list of the variant with two fixed collections.
FixedResources ==
    [kind |-> "resources",
     resources |->
       << [uri |-> <<"mochi://decks">>, name |-> <<"All Mochi Decks">>,
           description |-> <<"List of all decks in Mochi.">>, mimeType |-> "application/json"],
          [uri |-> <<"mochi://templates">>, name |-> <<"All Mochi Templates">>,
           description |-> <<"List of all templates in Mochi.">>,
           mimeType |-> "application/json"] >>]

\* What the resource-list handler of the per-deck variants produces once
\* listDecks settles; the handler has no try block.
ListOutcome(v, resp) ==
    LET r == ClientResult(v, "listDecks", resp)
    IN IF r.thrown THEN [kind |-> "throw", error |-> r.error]
       ELSE LET decks == IF v = "mochi" THEN r.value["docs"] ELSE r.value.items
            IN [kind |-> "resources",
                resources |-> [i \in 1..Len(decks) |-> DeckResource(decks[i])]]

\* --------------------------------------------------------------- prompts

CreateFlashcardPromptSchema == << Optional("input", "string") >>

PromptOutcome(args) ==
    LET issues == Issues(CreateFlashcardPromptSchema, args)
    IN IF issues # <<>> THEN [kind |-> "throw", error |-> ZodError(issues)]
       ELSE [kind |-> "messages",
             input |-> Parsed(CreateFlashcardPromptSchema, args)]

\* ------------------------------------------------- the command-line variant

\* The listTemplates tool of the McpServer variant: the body is used as
\* received, the bookmark line is written when the bookmark is truthy.
CliListTemplatesOutcome(resp) ==
    IF resp.kind # "ok"
    THEN ToolResult(TRUE, Text(<<"Error listing templates: ">> \o AxiosError(resp).message))
    ELSE [kind |-> "result",
          content |-> << [type |-> "text",
              text |-> [pieces |-> <<"Templates:">> \o
                            (IF "bookmark" \in DOMAIN resp.data /\ resp.data["bookmark"].s # ""
                             THEN <<"\n\nNext page bookmark: ", resp.data["bookmark"].s>>
                             ELSE <<>>),
                        json |-> List(MapPick(resp.data["docs"], {"id", "name", "content", "fields"}))]] >>]

\* ---------------------------------------------------------------- inputs

TokenUnset == [set |-> FALSE, value |-> ""]
Token(s) == [set |-> TRUE, value |-> s]
Tokens == {TokenUnset, Token(""), Token("secret")}

Variants == {"part_001", "index", "mochi", "cli"}

\* Every object over the given keys whose present values are among choices[k].
Bags(choices) ==
    UNION { {b \in [D -> UNION Range(choices)] : \A k \in D : b[k] \in choices[k]}
            : D \in SUBSET DOMAIN choices }

ArgBags(choices) == {Present(b) : b \in Bags(choices)} \cup {Undefined}

CreateArgs ==
    ArgBags(("content" :> {Str(""), Str("Q")}) @@ ("deck-id" :> {Str(""), Str("d1")})
            @@ ("template-id" :> {Str("t1"), Null}) @@ ("fields" :> {Obj("field")}))

UpdateArgs ==
    ArgBags(("card-id" :> {Str(""), Str("abc")}) @@ ("trashed?" :> {Str("true")})
            @@ ("content" :> {Str("Q2")}))

ListCardsArgs ==
    ArgBags(("deck-id" :> {Str("d1")}) @@ ("bookmark" :> {Str("bm1")})
            @@ ("limit" :> {Num(-1), Num(0), Num(1), Num(100), Num(101)}))

BookmarkArgs == ArgBags("bookmark" :> {Str("bm1"), Str("bm0")})

ToolNames ==
    {"mochi_create_card", "mochi_update_card", "mochi_list_decks", "mochi_list_cards",
     "mochi_list_templates", "create_card", "list_decks", "list_cards",
     "list_templates", "bogus_tool"}

\* Arguments that are valid but for one key the tool's schema does not declare.
UndeclaredArgs(name) ==
    IF name \in {"mochi_create_card", "create_card"}
    THEN {Present(("content" :> Str("Q")) @@ ("deck-id" :> Str("d1"))
                  @@ ("fields" :> Obj("field")) @@ ("color" :> Str("red")))}
    ELSE IF name = "mochi_update_card"
    THEN {Present(("card-id" :> Str("abc")) @@ ("content" :> Str("Q2"))
                  @@ ("manual-tags" :> Arr("string")))}
    ELSE IF name \in {"mochi_list_cards", "list_cards"}
    THEN {Present(("deck-id" :> Str("d1")) @@ ("color" :> Str("red")))}
    ELSE IF name = "bogus_tool" THEN {}
    ELSE {Present("color" :> Str("red"))}

ArgsFor(name) ==
    UndeclaredArgs(name) \cup
    (IF name \in {"mochi_create_card", "create_card"} THEN CreateArgs
     ELSE IF name = "mochi_update_card" THEN UpdateArgs
     ELSE IF name \in {"mochi_list_cards", "list_cards"} THEN ListCardsArgs
     ELSE IF name = "bogus_tool" THEN {Present(EmptyObj)}
     ELSE BookmarkArgs)

Uris ==
    { <<"mochi://decks">>, <<"mochi://templates">>, <<"mochi://decks/", "a">>,
      <<"mochi://decks/", "">>, <<"scheme://bogus">> }

PromptArgs == ArgBags("input" :> {Str("fact")})

\* ---------------------------------------------------------------- actions

NoExit == -1
NoReq == [type |-> "none"]
NoOutcome == [kind |-> "none"]
NoAnswer == [kind |-> "none"]

Init ==
    /\ variant \in Variants
    /\ token \in Tokens
    /\ phase = "boot"
    /\ exitCode = NoExit
    /\ req = NoReq
    /\ pc = "idle"
    /\ http = <<>>
    /\ answer = NoAnswer
    /\ outcome = NoOutcome
    /\ handled = 0

\* if (!apiKey) / if (args.length === 0)
TokenMissing(v, tok) ==
    IF v = "cli" THEN ~tok.set ELSE ~tok.set \/ tok.value = ""

\* Module evaluation up to the construction of the client: without a token
\* the process exits with code 1 before anything is connected.
Boot ==
    /\ phase = "boot"
    /\ IF TokenMissing(variant, token)
       THEN phase' = "exited" /\ exitCode' = 1
       ELSE phase' = "connecting" /\ exitCode' = exitCode
    /\ UNCHANGED <<variant, token, req, pc, http, answer, outcome, handled>>

\* server.connect(transport) resolves: requests are served from now on.
Connect ==
    /\ phase = "connecting"
    /\ phase' = "serving"
    /\ UNCHANGED <<variant, token, exitCode, req, pc, http, answer, outcome, handled>>

\* server.connect(transport) rejects: "Fatal error running server", exit 1.
ConnectFails ==
    /\ phase = "connecting"
    /\ phase' = "exited"
    /\ exitCode' = 1
    /\ UNCHANGED <<variant, token, req, pc, http, answer, outcome, handled>>

CanAccept == phase = "serving" /\ pc = "idle" /\ handled < MaxRequests

\* The tool-call handler up to its await: unknown names and arguments that
\* fail the schema are answered at once, otherwise the HTTP request is sent.
CallTool(name, args) ==
    /\ CanAccept
    /\ variant # "cli"
    /\ req' = [type |-> "tool", name |-> name, args |-> args]
    /\ handled' = handled + 1
    /\ answer' = NoAnswer
    /\ LET op == ToolOp(variant, name)
           issues == Issues(RequestSchema(variant, op), args)
       IN IF op = "none"
          THEN /\ outcome' = UnknownTool(name)
               /\ http' = <<>>
               /\ pc' = "idle"
          ELSE IF issues # <<>>
          THEN /\ outcome' = CatchResult(variant, ZodError(issues))
               /\ http' = <<>>
               /\ pc' = "idle"
          ELSE /\ outcome' = NoOutcome
               /\ http' = << ToolRequest(variant, op, args) >>
               /\ pc' = "awaiting"
    /\ UNCHANGED <<variant, token, phase, exitCode>>

\* The listTemplates tool of the command-line variant, called by the SDK
\* with arguments it has already checked.
CliListTemplates(args) ==
    /\ CanAccept
    /\ variant = "cli"
    /\ args.present
    /\ req' = [type |-> "tool", name |-> "listTemplates", args |-> args]
    /\ handled' = handled + 1
    /\ answer' = NoAnswer
    /\ outcome' = NoOutcome
    /\ http' = << Get(<<"/templates">>, args) >>
    /\ pc' = "awaiting"
    /\ UNCHANGED <<variant, token, phase, exitCode>>

\* Mutant of ReadResource: a URI read just before is answered from memory.
ReadResourceRemembers(uri) ==
    /\ CanAccept
    /\ variant # "cli"
    /\ req' = [type |-> "read", uri |-> uri]
    /\ handled' = handled + 1
    /\ IF req = [type |-> "read", uri |-> uri] /\ outcome.kind = "contents"
       THEN /\ outcome' = outcome
            /\ answer' = answer
            /\ http' = <<>>
            /\ pc' = "idle"
       ELSE IF ReadOp(variant, uri) = "none"
       THEN /\ outcome' = InvalidResource
            /\ answer' = NoAnswer
            /\ http' = <<>>
            /\ pc' = "idle"
       ELSE /\ outcome' = NoOutcome
            /\ answer' = NoAnswer
            /\ http' = << ReadRequest(variant, uri) >>
            /\ pc' = "awaiting"
    /\ UNCHANGED <<variant, token, phase, exitCode>>

\* The resource-read handler up to its await.
ReadResource(uri) ==
    /\ CanAccept
    /\ variant # "cli"
    /\ req' = [type |-> "read", uri |-> uri]
    /\ handled' = handled + 1
    /\ answer' = NoAnswer
    /\ IF ReadOp(variant, uri) = "none"
       THEN /\ outcome' = InvalidResource
            /\ http' = <<>>
            /\ pc' = "idle"
       ELSE /\ outcome' = NoOutcome
            /\ http' = << ReadRequest(variant, uri) >>
            /\ pc' = "awaiting"
    /\ UNCHANGED <<variant, token, phase, exitCode>>

\* The resource-list handler up to its await: two fixed collections, or one
\* resource per deck that listDecks returns.
ListResources ==
    /\ CanAccept
    /\ variant # "cli"
    /\ req' = [type |-> "list"]
    /\ handled' = handled + 1
    /\ answer' = NoAnswer
    /\ IF variant = "part_001"
       THEN /\ outcome' = FixedResources
            /\ http' = <<>>
            /\ pc' = "idle"
       ELSE /\ outcome' = NoOutcome
            /\ http' = << ClientRequest("listDecks", "", Undefined) >>
            /\ pc' = "awaiting"
    /\ UNCHANGED <<variant, token, phase, exitCode>>

\* The prompt handler: no remote call.
GetPrompt(args) ==
    /\ CanAccept
    /\ variant = "part_001"
    /\ req' = [type |-> "prompt", args |-> args]
    /\ handled' = handled + 1
    /\ answer' = NoAnswer
    /\ outcome' = PromptOutcome(args)
    /\ http' = <<>>
    /\ pc' = "idle"
    /\ UNCHANGED <<variant, token, phase, exitCode>>

\* Mutant of Receive: a failed request is sent once more before the handler
\* gives up.
ReceiveRetriesOnce(resp) ==
    /\ phase = "serving"
    /\ pc = "awaiting"
    /\ answer' = resp
    /\ IF resp.kind # "ok" /\ Len(http) = 1
       THEN /\ http' = http \o http
            /\ outcome' = NoOutcome
            /\ pc' = "awaiting"
       ELSE /\ http' = http
            /\ outcome' =
                 IF variant = "cli" THEN CliListTemplatesOutcome(resp)
                 ELSE IF req.type = "tool"
                 THEN ToolOutcome(variant, ToolOp(variant, req.name), resp)
                 ELSE IF req.type = "list" THEN ListOutcome(variant, resp)
                 ELSE ReadOutcome(variant, req.uri, resp)
            /\ pc' = "idle"
    /\ UNCHANGED <<variant, token, phase, exitCode, req, handled>>

\* The awaited HTTP request settles and the handler runs to its end.
Receive(resp) ==
    /\ phase = "serving"
    /\ pc = "awaiting"
    /\ outcome' =
         IF variant = "cli" THEN CliListTemplatesOutcome(resp)
         ELSE IF req.type = "tool"
         THEN ToolOutcome(variant, ToolOp(variant, req.name), resp)
         ELSE IF req.type = "list" THEN ListOutcome(variant, resp)
         ELSE ReadOutcome(variant, req.uri, resp)
    /\ answer' = resp
    /\ pc' = "idle"
    /\ UNCHANGED <<variant, token, phase, exitCode, req, http, handled>>

\* The remote never answers the request in flight. axios.create is given no
\* timeout and the handlers set none, so the awaited promise never settles.
RemoteSilent ==
    /\ phase = "serving"
    /\ pc = "awaiting"
    /\ pc' = "hung"
    /\ UNCHANGED <<variant, token, phase, exitCode, req, http, answer, outcome, handled>>

Next ==
    \/ Boot
    \/ Connect
    \/ ConnectFails
    \/ \E name \in ToolNames : \E args \in ArgsFor(name) : CallTool(name, args)
    \/ \E args \in BookmarkArgs : CliListTemplates(args)
    \/ \E uri \in Uris : ReadResource(uri)
    \/ ListResources
    \/ \E args \in PromptArgs : GetPrompt(args)
    \/ \E resp \in (IF pc = "awaiting" THEN Answers(http[1]) ELSE {}) : Receive(resp)
    \/ RemoteSilent

Spec == Init /\ [][Next]_vars

\* ------------------------------------------------ two calls in flight

\* Two tool calls that overlap: the SDK starts the handler of the second
\* request while the first one is suspended at its await. Each call has its
\* own slot, which holds what the handler's closure holds (request, promise
\* of its HTTP request, result); the module-level state, shared by both, is
\* the client with its token.
Slots == {1, 2}

ConcCalls ==
    { <<"mochi_list_decks", Present(EmptyObj)>>,
      <<"mochi_list_templates", Present("bookmark" :> Str("bm1"))>>,
      <<"mochi_create_card", Present(("content" :> Str("Q")) @@ ("deck-id" :> Str("d1")))>>,
      <<"mochi_create_card", Present("content" :> Str("Q"))>>,
      <<"mochi_update_card", Present(("card-id" :> Str("abc")) @@ ("content" :> Str("Q2")))>>,
      <<"bogus_tool", Present(EmptyObj)>> }

ConcInit ==
    /\ variant = "part_001"
    /\ token \in Tokens
    /\ phase = "boot"
    /\ exitCode = NoExit
    /\ req = [s \in Slots |-> NoReq]
    /\ pc = [s \in Slots |-> "idle"]
    /\ http = [s \in Slots |-> <<>>]
    /\ answer = [s \in Slots |-> NoAnswer]
    /\ outcome = [s \in Slots |-> NoOutcome]
    /\ handled = 0

\* The tool-call handler of one call up to its await; the call arrives while
\* every call accepted before it is still waiting for its HTTP response.
ConcCallTool(s, name, args) ==
    /\ phase = "serving"
    /\ req[s] = NoReq
    /\ \A t \in Slots \ {s} : req[t] = NoReq \/ pc[t] = "awaiting"
    /\ req' = [req EXCEPT ![s] = [type |-> "tool", name |-> name, args |-> args]]
    /\ handled' = handled + 1
    /\ LET op == ToolOp(variant, name)
           issues == Issues(RequestSchema(variant, op), args)
       IN IF op = "none"
          THEN /\ outcome' = [outcome EXCEPT ![s] = UnknownTool(name)]
               /\ UNCHANGED <<http, pc>>
          ELSE IF issues # <<>>
          THEN /\ outcome' = [outcome EXCEPT ![s] = CatchResult(variant, ZodError(issues))]
               /\ UNCHANGED <<http, pc>>
          ELSE /\ http' = [http EXCEPT ![s] = << ToolRequest(variant, op, args) >>]
               /\ pc' = [pc EXCEPT ![s] = "awaiting"]
               /\ UNCHANGED outcome
    /\ UNCHANGED <<variant, token, phase, exitCode, answer>>

\* Mutant of ConcReceive: the response settles the promise of the other call
\* when that call is waiting too.
ConcReceiveCrossed(s, resp) ==
    /\ phase = "serving"
    /\ pc[s] = "awaiting"
    /\ LET t == IF \E u \in Slots \ {s} : pc[u] = "awaiting"
                THEN CHOOSE u \in Slots \ {s} : pc[u] = "awaiting"
                ELSE s
       IN /\ outcome' = [outcome EXCEPT
                           ![t] = ToolOutcome(variant, ToolOp(variant, req[t].name), resp)]
          /\ answer' = [answer EXCEPT ![t] = resp]
          /\ pc' = [pc EXCEPT ![t] = "idle"]
    /\ UNCHANGED <<variant, token, phase, exitCode, req, http, handled>>

\* The HTTP request of one call settles: axios resolves or rejects the
\* promise that this call's handler awaits, and that handler runs to its end.
ConcReceive(s, resp) ==
    /\ phase = "serving"
    /\ pc[s] = "awaiting"
    /\ outcome' = [outcome EXCEPT
                     ![s] = ToolOutcome(variant, ToolOp(variant, req[s].name), resp)]
    /\ answer' = [answer EXCEPT ![s] = resp]
    /\ pc' = [pc EXCEPT ![s] = "idle"]
    /\ UNCHANGED <<variant, token, phase, exitCode, req, http, handled>>

ConcNext ==
    \/ Boot
    \/ Connect
    \/ ConnectFails
    \/ \E s \in Slots : \E call \in ConcCalls : ConcCallTool(s, call[1], call[2])
    \/ \E s \in Slots :
          \E resp \in (IF pc[s] = "awaiting"
                       THEN AnswersUpTo(http[s][1], MaxConcDocs) ELSE {}) :
             ConcReceive(s, resp)

ConcSpec == ConcInit /\ [][ConcNext]_vars

\* The event loop runs every step that is ready: startup, a handler whose
\* request arrived, the continuation of a request that settled.
LiveSpec == Spec /\ WF_vars(Next)


\* ------------------------------------------------------------ the catalog

\* The names the tool-list handler returns.
Catalog(v) ==
    IF v = "part_001"
    THEN {"mochi_create_card", "mochi_update_card", "mochi_list_cards",
          "mochi_list_decks", "mochi_list_templates"}
    ELSE IF v = "index"
    THEN {"create_card", "list_cards", "list_decks", "list_templates"}
    ELSE IF v = "mochi"
    THEN {"mochi_create_card", "mochi_list_cards", "mochi_list_decks"}
    ELSE {"createFlashcard", "updateFlashcard", "deleteFlashcard", "listFlashcards",
          "getStats", "getTemplate", "listTemplates"}

\* Mutant of Annotations: every tool is declared read-only and idempotent.
AnnotationsAllReadOnly(name) == [readOnlyHint |-> TRUE, idempotentHint |-> TRUE]

\* The annotations the tool-list handler of part_001 returns with each tool.
Annotations(name) ==
    IF name \in {"mochi_create_card", "mochi_update_card"}
    THEN [readOnlyHint |-> FALSE, idempotentHint |-> FALSE]
    ELSE [readOnlyHint |-> TRUE, idempotentHint |-> TRUE]

\* ------------------------------------------------------------- properties

ServerVariants == {"part_001", "index", "mochi"}

\* A handler has been entered for req / has run to its end.
Entered == req.type # "none"

Done == Entered /\ pc = "idle"

IsToolCall == req.type = "tool" /\ variant \in ServerVariants

\* A returned tool result: content blocks plus an error flag.
Structured(o) == o.kind = "result" /\ "isError" \in DOMAIN o /\ Len(o.content) >= 1

ErrorFlagged(o) == Structured(o) /\ o.isError = TRUE

Pieces(o) == Range(o.content[1].text.pieces)

CreateCardTool(v) == IF v = "index" THEN "create_card" ELSE "mochi_create_card"

ListDecksTool(v) == IF v = "index" THEN "list_decks" ELSE "mochi_list_decks"

ListCardsTool(v) == IF v = "index" THEN "list_cards" ELSE "mochi_list_cards"

ListTemplatesTool(v) == IF v = "index" THEN "list_templates" ELSE "mochi_list_templates"

NonEmptyString(bag, key) ==
    key \in DOMAIN bag /\ bag[key].t = "string" /\ bag[key].s # ""

\* A body with the Card shape of the specification: id, tags, content,
\* display name and deck id.
CardShaped(data) ==
    /\ \A k \in {"id", "content", "name", "deck-id"} :
          k \in DOMAIN data /\ data[k].t = "string"
    /\ "tags" \in DOMAIN data /\ data["tags"].t = "array"

\* What a finished tool call hands back: the serialized value of a result,
\* or the value itself where the handler returns it raw.
Payload(o) == IF o.kind = "raw" THEN o.value ELSE o.content[1].text.json

\* C1: every create-card call with non-empty content and deck-id issues exactly
\* one POST to /cards, and on a 2xx Card-shaped answer the returned result is
\* not error-flagged and holds the card id the remote assigned.
C1_CreateCardPostsOnce ==
    (req.type = "tool" /\ variant \in {"part_001", "index"}
        /\ req.name = CreateCardTool(variant) /\ req.args.present
        /\ NonEmptyString(req.args.bag, "content")
        /\ NonEmptyString(req.args.bag, "deck-id"))
    => /\ Len(http) = 1
       /\ http[1].method = "POST"
       /\ http[1].url = <<"/cards">>
       /\ (Done /\ answer.kind = "ok" /\ CardShaped(answer.data)
            => /\ Structured(outcome)
               /\ outcome.isError = FALSE
               /\ Payload(outcome)["id"] = answer.data["id"])

MissingFields(bag) ==
    {f \in {"content", "deck-id"} : f \notin DOMAIN bag \/ bag[f] = Str("")}

\* C2: every create-card call whose arguments lack content or deck-id, or
\* supply them empty, issues no HTTP request and returns an error-flagged
\* validation result whose text names each missing field.
C2_MissingFieldsNamed ==
    (IsToolCall /\ req.name = CreateCardTool(variant) /\ req.args.present
        /\ MissingFields(req.args.bag) # {})
    => /\ http = <<>>
       /\ ErrorFlagged(outcome)
       /\ \A f \in MissingFields(req.args.bag) : f \in Pieces(outcome)

\* C3: every tool call that has ended, whatever its name, arguments and the
\* remote's answer, has ended by returning a structured result (content blocks
\* plus error flag); nothing is thrown out of the handler.
C3_AlwaysStructuredResult ==
    (IsToolCall /\ Done) => Structured(outcome)

\* C4: a non-2xx answer with an array or field-to-message body surfaces as a
\* "Mochi API error" result carrying the status code and every server message,
\* unlike the result of a validation failure or of a network failure.
C4_RemoteApiErrorSurfaced ==
    (IsToolCall /\ variant \in {"part_001", "index"} /\ Done
        /\ answer.kind = "http_error")
    => /\ ErrorFlagged(outcome)
       /\ outcome.content[1].text.pieces[1] = "Mochi API error ("
       /\ ToString(answer.status) \in Pieces(outcome)
       /\ \A i \in 1..Len(answer.data.messages) :
              answer.data.messages[i] \in Pieces(outcome)

ArchivedCount(docs) ==
    Cardinality({i \in 1..Len(docs) :
        "archived" \in DOMAIN docs[i] /\ docs[i]["archived"] = Bool(TRUE)})

\* The decks a finished list-decks call hands back.
ReturnedDecks(o) ==
    IF "docs" \in DOMAIN Payload(o) THEN Payload(o)["docs"] ELSE Payload(o).items

\* C5: list-decks, on a valid answer of N decks of which K are archived,
\* returns exactly the N-K decks that are not archived, in their order.
C5_ArchivedDecksFiltered ==
    (IsToolCall /\ req.name = ListDecksTool(variant) /\ Done /\ answer.kind = "ok"
        /\ EnvelopeIssues(DeckSchema, answer.data) = <<>>)
    => /\ outcome.kind \in {"result", "raw"}
       /\ Len(ReturnedDecks(outcome))
            = Len(answer.data["docs"]) - ArchivedCount(answer.data["docs"])
       /\ ReturnedDecks(outcome) = FilterArchived(answer.data["docs"])

ListTools(v) == {ListDecksTool(v), ListCardsTool(v), ListTemplatesTool(v)} \cap Catalog(v)

\* C6: for list-cards, list-decks and list-templates, a bookmark argument is
\* sent unchanged as the bookmark query parameter of the GET, and the bookmark
\* of a valid answer is present, unchanged, in the returned result.
C6_BookmarkPassThrough ==
    (IsToolCall /\ variant \in {"part_001", "index"} /\ req.name \in ListTools(variant)
        /\ req.args.present /\ Len(http) = 1)
    => /\ http[1].method = "GET"
       /\ ("bookmark" \in DOMAIN req.args.bag
            => /\ http[1].params.present
               /\ "bookmark" \in DOMAIN http[1].params.bag
               /\ http[1].params.bag["bookmark"] = req.args.bag["bookmark"])
       /\ (Done /\ answer.kind = "ok" /\ Structured(outcome) /\ outcome.isError = FALSE
            => /\ "bookmark" \in DOMAIN Payload(outcome)
               /\ Payload(outcome)["bookmark"] = answer.data["bookmark"])

TrashArgs == Present(("card-id" :> Str("abc")) @@ ("trashed?" :> Str("true")))

\* C7: in the variant with update-card, an update-card call with arguments
\* {"card-id": "abc", "trashed?": "true"} issues exactly one POST to /cards/abc
\* whose body is {"trashed?": "true"}; and for every update-card call that
\* passes validation the POST goes to /cards/{card-id} with a body holding
\* exactly the caller's arguments that the update request declares, unchanged:
\* no card-id, no added field.
C7_UpdateCardBodyOnlySupplied ==
    (IsToolCall /\ variant = "part_001" /\ req.name = "mochi_update_card"
        /\ req.args.present /\ "card-id" \in DOMAIN req.args.bag)
    => /\ Len(http) = 1
       /\ http[1].method = "POST"
       /\ http[1].url = <<"/cards/", req.args.bag["card-id"].s>>
       /\ http[1].body.present
       /\ http[1].body.bag = Restrict(req.args.bag, SchemaKeys(UpdateCardRequestSchema))
       /\ (req.args = TrashArgs =>
             http = << [method |-> "POST", url |-> <<"/cards/", "abc">>,
                        params |-> Undefined,
                        body |-> Present("trashed?" :> Str("true"))] >>)

C7_Witness ==
    /\ variant = "part_001" /\ req.type = "tool" /\ req.name = "mochi_update_card"
    /\ req.args = TrashArgs
    /\ Done /\ answer.kind = "ok" /\ Len(http) = 1

\* URIs no variant lists or serves: neither of the two collection URIs of
\* part_001, nor a per-deck URI of the other variants.
UnregisteredUris(v) ==
    IF v = "part_001"
    THEN {<<"scheme://bogus">>, <<"mochi://decks/", "a">>, <<"mochi://decks/", "">>}
    ELSE {<<"scheme://bogus">>, <<"mochi://decks">>, <<"mochi://templates">>}

IsUnregisteredRead ==
    req.type = "read" /\ variant \in ServerVariants /\ req.uri \in UnregisteredUris(variant)

\* C8 as stated: reading an unregistered URI ends with a returned structured
\* error result, without any HTTP request and with the process still serving.
C8_UnregisteredUriStructuredError ==
    IsUnregisteredRead
    => /\ http = <<>>
       /\ phase = "serving"
       /\ ErrorFlagged(outcome)

\* C8 amended: reading an unregistered URI makes the read handler throw
\* Error("Invalid resource URI") at once; it yields no contents (empty or
\* otherwise), issues no HTTP request and leaves the process serving.
C8_UnregisteredUriThrowsInvalid ==
    IsUnregisteredRead
    => /\ pc = "idle"
       /\ http = <<>>
       /\ phase = "serving"
       /\ outcome.kind = "throw"
       /\ outcome.error.name = "Error"
       /\ outcome.error.message = <<"Invalid resource URI">>

C8_Witness ==
    /\ req.type = "read" /\ req.uri = <<"scheme://bogus">>
    /\ variant = "part_001" /\ outcome.kind = "throw" /\ handled = 2

\* C9: a tool call whose name is not in the variant's catalog is answered at
\* once, with no HTTP request, by a returned (not thrown) error-flagged result
\* of one text block that names the requested tool.
C9_UnknownToolNamed ==
    (IsToolCall /\ req.name \notin Catalog(variant))
    => /\ pc = "idle"
       /\ http = <<>>
       /\ ErrorFlagged(outcome)
       /\ Len(outcome.content) = 1
       /\ outcome.content[1].type = "text"
       /\ "Unknown tool: " \in Pieces(outcome)
       /\ req.name \in Pieces(outcome)

C9_Witness ==
    /\ IsToolCall /\ req.name = "bogus_tool"
    /\ outcome.kind = "result" /\ handled = 1

\* C10: in a run whose token is missing or empty the process has, once startup
\* has run, exited with code 1 without connecting: no request is ever handled
\* and no HTTP request is ever issued.
C10_NoTokenNoService ==
    ((~token.set \/ token.value = "") /\ phase # "boot")
    => /\ phase = "exited"
       /\ exitCode = 1
       /\ handled = 0
       /\ http = <<>>

\* The client method the handled tool call dispatches to.
ReqOp == ToolOp(variant, req.name)

\* The issues the response schema of an operation raises for a 2xx body.
ResponseIssues(v, op, data) ==
    IF op \in {"createCard", "updateCard"}
    THEN Issues(CreateCardResponseSchema(v), Present(data))
    ELSE EnvelopeIssues(ItemSchema(v, op), data)

\* A finished tool call whose 2xx answer fails the response schema.
SchemaViolated ==
    /\ IsToolCall /\ Done /\ answer.kind = "ok"
    /\ ResponseIssues(variant, ReqOp, answer.data) # <<>>

\* Every result a tool call with arguments that fail the request schema gets.
InboundValidationResults(v) ==
    UNION { { CatchResult(v, ZodError(Issues(RequestSchema(v, ToolOp(v, n)), a)))
              : a \in {x \in ArgsFor(n) : Issues(RequestSchema(v, ToolOp(v, n)), x) # <<>>} }
            : n \in Catalog(v) }

\* Every result a tool call whose HTTP request fails gets.
RemoteErrorResults(v) == {CatchResult(v, AxiosError(f)) : f \in Failures}

\* C11 as stated: a 2xx answer that fails the response schema gives an
\* error-flagged result that is neither a result a failed HTTP request produces
\* nor a result that arguments failing the request schema produce.
C11_SchemaViolationDistinct ==
    (SchemaViolated /\ variant \in {"part_001", "index"})
    => /\ ErrorFlagged(outcome)
       /\ outcome \notin RemoteErrorResults(variant)
       /\ outcome \notin InboundValidationResults(variant)

\* C11 amended: a 2xx answer that fails the response schema gives an
\* error-flagged "Validation error" result that names the path of every
\* offending response property; it is never a result a failed HTTP request
\* produces and never a "Mochi API error", but it has the same heading as the
\* result of arguments that fail the request schema.
C11_SchemaViolationIsValidationError ==
    (SchemaViolated /\ variant \in {"part_001", "index"})
    => /\ ErrorFlagged(outcome)
       /\ Len(outcome.content) = 1
       /\ outcome.content[1].text.pieces[1] = "Validation error:\n"
       /\ \A r \in InboundValidationResults(variant) :
              r.content[1].text.pieces[1] = outcome.content[1].text.pieces[1]
       /\ LET issues == ResponseIssues(variant, ReqOp, answer.data)
          IN \A i \in 1..Len(issues) :
                 \A j \in 1..Len(issues[i].path) : issues[i].path[j] \in Pieces(outcome)
       /\ "Mochi API error (" \notin Pieces(outcome)
       /\ outcome \notin RemoteErrorResults(variant)

C11_Witness ==
    /\ variant = "part_001" /\ SchemaViolated
    /\ req.name = "mochi_create_card"
    /\ answer = Ok(Without(Card("c9"), {"content"}))
    /\ outcome \in InboundValidationResults(variant)

\* The client method behind the handled tool call, in any variant.
ReqClientOp == IF variant = "cli" THEN "listTemplates" ELSE ReqOp

\* A result handed to the caller as a success: returned and not error-flagged.
Success(o) ==
    \/ o.kind = "raw"
    \/ o.kind = "result" /\ ~("isError" \in DOMAIN o /\ o.isError = TRUE)

\* C12: a tool call whose 2xx answer violates the response schema of the
\* called operation never ends in a result that is not error-flagged: the
\* unvalidated body is never handed to the caller as a success.
C12_OnlyValidatedPayloads ==
    (req.type = "tool" /\ Done /\ answer.kind = "ok"
        /\ ResponseIssues(variant, ReqClientOp, answer.data) # <<>>)
    => ~Success(outcome)

\* An error-flagged result of the ZodError branch.
IsValidationError(o) ==
    ErrorFlagged(o)
    /\ o.content[1].text.pieces[1] \in {"Validation error:\n", "Validation error: "}

\* C13: a list-cards call with a limit below 1 or above 100 is answered at
\* once by a validation error and issues no HTTP request; with a limit from 1
\* to 100 (1 and 100 included) it issues one GET /cards whose limit query
\* parameter is that number.
C13_LimitRange ==
    (IsToolCall /\ req.name = ListCardsTool(variant) /\ req.args.present
        /\ "limit" \in DOMAIN req.args.bag)
    => LET n == req.args.bag["limit"].n
       IN IF n < 1 \/ n > 100
          THEN /\ pc = "idle"
               /\ http = <<>>
               /\ IsValidationError(outcome)
          ELSE /\ Len(http) = 1
               /\ http[1].method = "GET"
               /\ http[1].url = <<"/cards">>
               /\ http[1].params.present
               /\ "limit" \in DOMAIN http[1].params.bag
               /\ http[1].params.bag["limit"] = Num(n)

C13_Witness ==
    /\ variant = "part_001" /\ req.type = "tool" /\ req.name = "mochi_list_cards"
    /\ req.args = Present(("limit" :> Num(101)) @@ ("deck-id" :> Str("d1")))
    /\ IsValidationError(outcome) /\ "limit" \in Pieces(outcome) /\ http = <<>>

\* C14: an update-card call without card-id, or with the empty string as
\* card-id, is answered by a validation error and issues no HTTP request; no
\* POST goes to /cards/ with an empty id.
C14_EmptyCardIdRejected ==
    (IsToolCall /\ variant = "part_001" /\ req.name = "mochi_update_card"
        /\ req.args.present
        /\ ("card-id" \notin DOMAIN req.args.bag \/ req.args.bag["card-id"] = Str("")))
    => /\ http = <<>>
       /\ IsValidationError(outcome)

\* C15: a create-card call with non-empty content and deck-id and no fields
\* entry (and, if it has a template-id, a string as template-id) passes
\* validation and issues the POST to /cards.
C15_FieldsOptional ==
    (IsToolCall /\ req.name = CreateCardTool(variant) /\ req.args.present
        /\ NonEmptyString(req.args.bag, "content")
        /\ NonEmptyString(req.args.bag, "deck-id")
        /\ "fields" \notin DOMAIN req.args.bag
        /\ ("template-id" \in DOMAIN req.args.bag => req.args.bag["template-id"] # Null))
    => /\ (answer = NoAnswer => outcome = NoOutcome)
       /\ Len(http) = 1
       /\ http[1].method = "POST"
       /\ http[1].url = <<"/cards">>
       /\ "fields" \notin DOMAIN http[1].body.bag

\* C16: the body POSTed by a create-card call always carries template-id:
\* null when the arguments omit it, the supplied value unchanged otherwise.
C16_TemplateIdDefaultsToNull ==
    (IsToolCall /\ variant = "part_001" /\ req.name = "mochi_create_card"
        /\ Len(http) = 1)
    => /\ http[1].body.present
       /\ "template-id" \in DOMAIN http[1].body.bag
       /\ http[1].body.bag["template-id"] =
             IF "template-id" \in DOMAIN req.args.bag
             THEN req.args.bag["template-id"]
             ELSE Null

C16_Witness ==
    /\ variant = "part_001" /\ req.type = "tool" /\ req.name = "mochi_create_card"
    /\ req.args = Present(("content" :> Str("Q")) @@ ("deck-id" :> Str("d1")))
    /\ Len(http) = 1 /\ http[1].body.bag["template-id"] = Null
    /\ Done /\ answer.kind = "ok"

\* The client method behind the handled tool call or resource read.
CalledOp == IF req.type = "tool" THEN ReqOp ELSE ReadOp(variant, req.uri)

\* A value was handed back: a tool success or the contents of a read.
Returned(o) == Success(o) \/ o.kind = "contents"

ReturnedValue(o) == IF o.kind = "contents" THEN o.contents[1].text.json ELSE Payload(o)

\* A remote body cut down to the properties its response schema declares.
DeclaredOnly(v, op, data) ==
    IF op \in {"createCard", "updateCard"}
    THEN Restrict(data, SchemaKeys(CreateCardResponseSchema(v)))
    ELSE [k \in (DOMAIN data) \cap {"bookmark", "docs"} |->
            IF k = "docs"
            THEN [i \in 1..Len(data["docs"]) |->
                    Restrict(data["docs"][i], SchemaKeys(ItemSchema(v, op)))]
            ELSE data[k]]

\* A returned value holds declared properties only.
OnlyDeclared(v, op, val) ==
    IF op \in {"createCard", "updateCard"}
    THEN DOMAIN val \subseteq SchemaKeys(CreateCardResponseSchema(v))
    ELSE LET docs == IF "docs" \in DOMAIN val THEN val["docs"] ELSE val.items
         IN /\ "items" \in DOMAIN val \/ DOMAIN val \subseteq {"bookmark", "docs"}
            /\ \A i \in 1..Len(docs) : DOMAIN docs[i] \subseteq SchemaKeys(ItemSchema(v, op))

\* C17: properties of a 2xx body that the response schema does not declare
\* never make the call fail (a body that is valid without them is returned as
\* a success) and never appear in what is returned: the value holds declared
\* properties only.
C17_UndeclaredResponsePropertiesDropped ==
    (variant = "part_001" /\ req.type \in {"tool", "read"} /\ Done /\ answer.kind = "ok")
    => /\ (ResponseIssues(variant, CalledOp, DeclaredOnly(variant, CalledOp, answer.data)) = <<>>
             => Returned(outcome))
       /\ (Returned(outcome) => OnlyDeclared(variant, CalledOp, ReturnedValue(outcome)))

C17_Witness ==
    /\ variant = "part_001" /\ req.type = "tool" /\ req.name = "mochi_list_templates"
    /\ Done /\ answer.kind = "ok"
    /\ answer.data["docs"] = << Template("t3") @@ ("style" :> Obj("any")) >>
    /\ Success(outcome)
    /\ Payload(outcome)["docs"] = << Template("t3") >>

\* C18: a tool call or resource read issues at most one HTTP request: once the
\* remote has answered, with a failure or with a page that carries a
\* bookmark, the handler has ended and its one request is the only one issued.
C18_AtMostOneRequest ==
    req.type \in {"tool", "read"}
    => /\ Len(http) <= 1
       /\ (pc = "awaiting" => Len(http) = 1)
       /\ (answer # NoAnswer => Done /\ Len(http) = 1)

C18_Witness ==
    /\ variant = "part_001" /\ req.type = "tool" /\ req.name = "mochi_list_cards"
    /\ handled = 2 /\ Done /\ Len(http) = 1
    /\ answer.kind = "ok" /\ "bookmark" \in DOMAIN answer.data
    /\ Len(answer.data["docs"]) = 2 /\ Success(outcome)

\* C19: list-cards, on a valid answer, returns the whole page: the bookmark
\* and, position by position, every card of the answer's docs (its declared
\* properties), none dropped, repeated or moved, whatever flags it carries.
C19_ListCardsUnfiltered ==
    (IsToolCall /\ variant \in {"part_001", "index"} /\ req.name = ListCardsTool(variant)
        /\ Done /\ answer.kind = "ok"
        /\ ResponseIssues(variant, "listCards", answer.data) = <<>>)
    => /\ Success(outcome)
       /\ DOMAIN Payload(outcome) = {"bookmark", "docs"}
       /\ Payload(outcome)["bookmark"] = answer.data["bookmark"]
       /\ Len(Payload(outcome)["docs"]) = Len(answer.data["docs"])
       /\ \A i \in 1..Len(answer.data["docs"]) :
              /\ Payload(outcome)["docs"][i]["id"] = answer.data["docs"][i]["id"]
              /\ Payload(outcome)["docs"][i]
                   = Restrict(answer.data["docs"][i], SchemaKeys(CardSchema(variant)))

C19_Witness ==
    /\ variant = "part_001" /\ req.type = "tool" /\ req.name = "mochi_list_cards"
    /\ Done /\ answer.kind = "ok"
    /\ answer.data["docs"] = << FlaggedCard("c4"), Card("c1") >>
    /\ Success(outcome)
    /\ Payload(outcome)["docs"] = << Card("c4"), Card("c1") >>

\* The issues the request schema of the handled tool call raises.
RequestIssues == Issues(RequestSchema(variant, ReqOp), req.args)

\* The argument fields that violate the request schema.
OffendingFields == {RequestIssues[i].path[1] : i \in 1..Len(RequestIssues)}

\* The entries of a validation text: one more than its separators.
Entries(o) ==
    1 + Cardinality({i \in 2..Len(o.content[1].text.pieces) :
                        o.content[1].text.pieces[i] \in {"\n", ", "}})

\* C20: a tool call whose argument object violates the request schema in k
\* fields gets a validation-error result with k entries, one per offending
\* field, each naming its field.
C20_EveryOffendingFieldNamed ==
    (IsToolCall /\ ReqOp # "none" /\ req.args.present /\ RequestIssues # <<>>)
    => /\ IsValidationError(outcome)
       /\ Entries(outcome) = Cardinality(OffendingFields)
       /\ \A f \in OffendingFields : f \in Pieces(outcome)

\* C21: every tool call that succeeds (one request, 2xx, body valid for the
\* operation's response schema) returns a result of exactly one content block,
\* of type text and holding the serialized value, with the error flag not set;
\* the client's return value is never handed back as it is.
C21_SuccessIsOneTextBlock ==
    (IsToolCall /\ Done /\ answer.kind = "ok"
        /\ ResponseIssues(variant, ReqOp, answer.data) = <<>>)
    => /\ outcome.kind = "result"
       /\ Len(outcome.content) = 1
       /\ outcome.content[1].type = "text"
       /\ outcome.content[1].text.json # NoJson
       /\ outcome.isError = FALSE

\* A read of a registered URI, or a list tool call whose arguments are valid.
IsFetch ==
    \/ req.type = "read" /\ variant \in ServerVariants /\ ReadOp(variant, req.uri) # "none"
    \/ /\ IsToolCall /\ ReqOp \in {"listDecks", "listCards", "listTemplates"}
       /\ RequestIssues = <<>>

\* C22: whatever was handled before, a read or list operation issues its own
\* GET, built from its own arguments, and what it hands back is the value the
\* handler computes from those arguments and the answer to that GET alone.
C22_NoStateBetweenCalls ==
    (IsFetch /\ variant = "part_001")
    => /\ Len(http) = 1
       /\ http[1].method = "GET"
       /\ http[1] = (IF req.type = "read" THEN ReadRequest(variant, req.uri)
                     ELSE ToolRequest(variant, ReqOp, req.args))
       /\ (Done => /\ answer \in Answers(http[1])
                   /\ outcome = (IF req.type = "read"
                                 THEN ReadOutcome(variant, req.uri, answer)
                                 ELSE ToolOutcome(variant, ReqOp, answer)))

C22_Witness ==
    /\ variant = "part_001" /\ handled = 2 /\ Done
    /\ req = [type |-> "read", uri |-> <<"mochi://decks">>]
    /\ answer.kind = "ok"
    /\ answer.data["docs"] = << Deck("b", "false") >>
    /\ outcome.kind = "contents"
    /\ ReturnedValue(outcome) = List(<< Without(Deck("b", "false"), {"sort"}) >>)

\* C23: a tool call whose HTTP request is never answered is ended all the
\* same (by a request timeout) and returns an error-flagged result; it does
\* not stay pending forever.
C23_TimeoutEndsCall ==
    (req.type = "tool" /\ pc = "hung") ~> (pc = "idle" /\ ErrorFlagged(outcome))

\* C24: the catalog and the dispatcher know the same tool names, and a tool
\* behaves as its annotations say: one declared read-only and idempotent
\* issues nothing but GET requests, one declared neither issues a POST
\* whenever its arguments pass validation.
C24_CatalogAgreesWithDispatch ==
    (IsToolCall /\ variant = "part_001")
    => /\ \A n \in ToolNames \cup Catalog(variant) :
              n \in Catalog(variant) <=> ToolOp(variant, n) # "none"
       /\ (req.name \notin Catalog(variant) => http = <<>>)
       /\ (req.name \in Catalog(variant) =>
              LET a == Annotations(req.name)
              IN /\ a.readOnlyHint = a.idempotentHint
                 /\ (a.readOnlyHint =>
                        \A i \in 1..Len(http) : http[i].method = "GET")
                 /\ (~a.readOnlyHint /\ RequestIssues = <<>> =>
                        Len(http) = 1 /\ http[1].method = "POST"))

C24_Witness ==
    /\ variant = "part_001" /\ IsToolCall /\ req.name = "mochi_update_card"
    /\ req.args = Present(("card-id" :> Str("abc")) @@ ("content" :> Str("Q2")))
    /\ Len(http) = 1 /\ http[1].method = "POST" /\ handled = 2
    /\ Done /\ Success(outcome)

\* C25: in the variants with per-deck resources, reading mochi://decks/{id}
\* issues exactly one GET /cards whose only query parameter is deck-id = {id}
\* and, on a valid answer, returns one content block for that URI listing the
\* cards of the answer in order, each reduced to id, name, content and fields.
C25_PerDeckRead ==
    (req.type = "read" /\ variant \in {"index", "mochi"} /\ DeckUriMatch(req.uri))
    => /\ Len(http) = 1
       /\ http[1].method = "GET"
       /\ http[1].url = <<"/cards">>
       /\ http[1].params = Present("deck-id" :> Str(req.uri[2]))
       /\ (Done /\ answer.kind = "ok"
             /\ ResponseIssues(variant, "listCards", answer.data) = <<>>
           => /\ outcome.kind = "contents"
              /\ Len(outcome.contents) = 1
              /\ outcome.contents[1].uri = req.uri
              /\ LET items == ReturnedValue(outcome).items
                     docs == answer.data["docs"]
                 IN /\ Len(items) = Len(docs)
                    /\ \A i \in 1..Len(docs) :
                          items[i] = Restrict(docs[i], {"id", "name", "content", "fields"}))

C25_Witness ==
    /\ variant = "index" /\ req = [type |-> "read", uri |-> <<"mochi://decks/", "a">>]
    /\ Done /\ answer.kind = "ok"
    /\ answer.data["docs"] = << FullCard("c2"), Card("c1") >>
    /\ outcome.kind = "contents"
    /\ ReturnedValue(outcome).items[2] = Without(Card("c1"), {"tags", "deck-id"})

\* C26: when two tool calls are in flight at once, each call ends with the
\* result it would have alone: its single request is built from its own
\* arguments, the response it consumes is a response to that request and its
\* result is the handler's function of that response; and the token the
\* client was constructed with (its Authorization header) never changes.
AloneResult(s) ==
    LET op == ToolOp(variant, req[s].name)
        issues == Issues(RequestSchema(variant, op), req[s].args)
    IN IF op = "none"
       THEN http[s] = <<>> /\ outcome[s] = UnknownTool(req[s].name)
       ELSE IF issues # <<>>
       THEN http[s] = <<>> /\ outcome[s] = CatchResult(variant, ZodError(issues))
       ELSE /\ http[s] = << ToolRequest(variant, op, req[s].args) >>
            /\ IF pc[s] = "awaiting"
               THEN outcome[s] = NoOutcome /\ answer[s] = NoAnswer
               ELSE /\ answer[s] \in AnswersUpTo(http[s][1], MaxConcDocs)
                    /\ outcome[s] = ToolOutcome(variant, op, answer[s])

C26_ConcurrentCallsIsolated ==
    /\ [](\A s \in Slots : req[s] # NoReq => AloneResult(s))
    /\ [][token' = token]_vars

C26_Witness ==
    /\ \A s \in Slots : req[s] # NoReq /\ pc[s] = "idle"
    /\ req[1].name = "mochi_create_card" /\ req[2].name = "mochi_list_decks"
    /\ answer[1].kind = "ok" /\ answer[2].kind = "ok"
    /\ ~ErrorFlagged(outcome[1]) /\ ~ErrorFlagged(outcome[2])
    /\ outcome[1] # outcome[2]

\* C27: every URI the resource list returns is accepted by the resource read:
\* a read of a listed URI that follows the list never fails with "Invalid
\* resource URI", also when a listed deck has the empty string as its id.
C27_ListedUrisReadable ==
    [][(/\ req.type = "list" /\ outcome.kind = "resources"
        /\ req'.type = "read"
        /\ \E i \in DOMAIN outcome.resources : outcome.resources[i].uri = req'.uri)
       => outcome' # InvalidResource]_vars

\* C28: argument keys that the tool's request schema does not declare never
\* reach the remote: for create-card, update-card and the list tools every
\* body or query sent holds only declared keys, and a call that is valid but
\* for undeclared keys is not rejected: its request is sent all the same.
SentKeys(r) ==
    IF r.method = "POST" THEN DOMAIN r.body.bag
    ELSE IF r.params.present THEN DOMAIN r.params.bag ELSE {}

DeclaredKeys(v, op) ==
    IF op = "updateCard" THEN SchemaKeys(UpdateCardRequestSchema)
    ELSE SchemaKeys(RequestSchema(v, op))

C28_UndeclaredKeysDropped ==
    (IsToolCall /\ variant = "part_001" /\ req.args.present /\ ReqOp # "none")
    => LET schema == RequestSchema(variant, ReqOp)
           declaredPart == Present(Restrict(req.args.bag, SchemaKeys(schema)))
       IN /\ \A i \in 1..Len(http) : SentKeys(http[i]) \subseteq DeclaredKeys(variant, ReqOp)
          /\ (Issues(schema, declaredPart) = <<>>
              => /\ Len(http) = 1
                 /\ \A k \in DeclaredKeys(variant, ReqOp) \cap DOMAIN req.args.bag :
                       IF http[1].method = "POST"
                       THEN http[1].body.bag[k] = req.args.bag[k]
                       ELSE http[1].params.bag[k] = req.args.bag[k]
                 /\ (Done => ~IsValidationError(outcome) \/ SchemaViolated))

C28_Witness ==
    /\ variant = "part_001" /\ IsToolCall /\ req.name = "mochi_update_card"
    /\ "manual-tags" \in DOMAIN req.args.bag
    /\ Done /\ answer.kind = "ok" /\ ~ErrorFlagged(outcome)
    /\ http[1].body.bag = ("content" :> Str("Q2"))

\* C29: a list-decks, list-cards or list-templates call that arrives without
\* arguments (absent, not an empty object) issues no HTTP request and is
\* answered at once by an error-flagged validation result, although every
\* parameter of these tools is optional.
C29_AbsentArgumentsRejected ==
    (IsToolCall /\ variant = "part_001" /\ req.name \in ListTools(variant)
        /\ ~req.args.present)
    => /\ http = <<>>
       /\ answer = NoAnswer
       /\ Done
       /\ IsValidationError(outcome)
       /\ outcome = ToolResult(TRUE, Text(<<"Validation error:\n",
                                            "Required field '", "' is missing">>))

C29_Witness ==
    /\ variant = "part_001" /\ IsToolCall /\ req.name = "mochi_list_cards"
    /\ req.args = Undefined
    /\ Done /\ http = <<>> /\ ErrorFlagged(outcome)

\* C30: the error flag of a tool result is exact. Every finished tool call
\* returns a result; it is not error-flagged only if exactly one HTTP request
\* was issued, it was answered 2xx and the body passed the response schema of
\* the operation; in every other case the result is error-flagged and its text
\* starts with exactly one of "Unknown tool", "Validation error",
\* "Mochi API error", "Error".
ErrorPrefixes == {"Unknown tool: ", "Validation error:\n", "Mochi API error (", "Error: "}

CleanExchange ==
    /\ Len(http) = 1
    /\ answer.kind = "ok"
    /\ ResponseIssues(variant, ReqOp, answer.data) = <<>>

C30_ErrorFlagExact ==
    (IsToolCall /\ variant \in {"part_001", "index"} /\ Done)
    => /\ Structured(outcome)
       /\ Len(outcome.content) = 1
       /\ IF CleanExchange
          THEN outcome.isError = FALSE
          ELSE /\ outcome.isError = TRUE
               /\ outcome.content[1].text.pieces # <<>>
               /\ outcome.content[1].text.pieces[1] \in ErrorPrefixes

C30_Witness ==
    /\ variant = "index" /\ IsToolCall /\ req.name = "list_decks" /\ Done
    /\ Len(http) = 1 /\ answer.kind = "network"
    /\ ErrorFlagged(outcome)
    /\ outcome.content[1].text.pieces = <<"Error: ", "Network Error">>

====
